---- MODULE Spec2Model ----
(***************************************************************************)
(* A model of the scene-object registry (compas.scene.object), the Rhino   *)
(* ShapeObject draw/update/synchronize lifecycle                           *)
(* (compas_rhino.objects._shapeobject), the Color modifiers                *)
(* (compas.colors.color) and the bounding box functions                    *)
(* (compas.geometry.bbox.bbox).                                            *)
(*                                                                         *)
(* Each subsystem has its own specification over the shared variables:     *)
(* SpecScene, SpecShape, SpecColor, SpecBBox, SpecBBoxXY.  A specification *)
(* leaves the variables of the other subsystems at their idle values.      *)
(***************************************************************************)
EXTENDS Integers, Sequences, FiniteSets, TLC

VARIABLES
    \* ---- compas.scene.object ----
    ITEM_OBJECT,    \* the module-level dict _ITEM_OBJECT: item type -> object type
    regLog,         \* history: the register() calls made so far, in order
    built,          \* outcome of the last BaseObject.build call
    objItem,        \* BaseObject._item of the scene object under observation
    objArtist,      \* BaseObject._artist of that object (None until first read)
    artistRead,     \* history: what the last read of obj.artist returned, and
                    \* the item the object held at that read
    \* ---- compas_rhino.objects._shapeobject ----
    visible,        \* ShapeObject.visible
    guid,           \* ShapeObject._guid
    matrix,         \* ShapeObject._matrix (a Rhino Transform, or None)
    stack,          \* ShapeObject._stack: [kind, items], newest first
    shape,          \* the vertices of the COMPAS shape
    doc,            \* the host document: guid -> geometry of the host object
    nextGuid,       \* the next guid the host hands out
    prev,           \* history: the state before the last call
    last,           \* history: the last call and its outcome
    \* ---- compas.colors.color ----
    colors,         \* the Color objects alive, by identity
    colorLast,      \* history: the last Color call, its outcome, the state before
    \* ---- compas.geometry.bbox.bbox ----
    points,         \* the argument of bounding_box
    box,            \* what the last call returned
    bboxLast        \* the last call and its outcome

sceneVars == <<ITEM_OBJECT, regLog, built, objItem, objArtist, artistRead>>
shapeVars == <<visible, guid, matrix, stack, shape, doc, nextGuid, prev, last>>
colorVars == <<colors, colorLast>>
bboxVars  == <<points, box, bboxLast>>
vars == <<sceneVars, shapeVars, colorVars, bboxVars>>

None == "None"
\* _artist = None, as a value comparable with an artist
NoArtist == [cls |-> None, item |-> None]
\* _guid = NoGuid (the host hands out guids from 1)
NoGuid == 0

(***************************************************************************)
(* Idle values: what a specification gives the variables of the other      *)
(* subsystems.                                                             *)
(***************************************************************************)
SceneIdle ==
    /\ ITEM_OBJECT = <<>>
    /\ regLog = <<>>
    /\ built = [outcome |-> None]
    /\ objItem = None
    /\ objArtist = NoArtist
    /\ artistRead = [artist |-> NoArtist, of |-> None]

ShapeIdle ==
    /\ visible = TRUE
    /\ guid = NoGuid
    /\ matrix = <<>>
    /\ stack = [kind |-> "deque", items |-> <<>>]
    /\ shape = <<>>
    /\ doc = <<>>
    /\ nextGuid = 1
    /\ prev = <<>>
    /\ last = [op |-> "init"]

ColorIdle ==
    /\ colors = <<>>
    /\ colorLast = [op |-> "init", n |-> 0]

BBoxIdle ==
    /\ points = <<>>
    /\ box = <<>>
    /\ bboxLast = [op |-> "init", outcome |-> "ok"]

(***************************************************************************)
(*                       compas.scene.object                               *)
(***************************************************************************)
MaxRegs == 3

ItemTypes == {"Shape", "Sphere", "Cone"}
ObjectTypes == {"SphereObject", "ConeObject"}
Items == {"sphere1", "sphere2", "cone1"}
Kwargs == {[visible |-> TRUE], [visible |-> FALSE]}

\* type(item): the exact class of an item
TypeOf(item) == IF item = "cone1" THEN "Cone" ELSE "Sphere"

\* dict assignment d[k] = v: k is added or its value replaced, other keys kept
DictSet(d, k, v) == [x \in (DOMAIN d) \cup {k} |-> IF x = k THEN v ELSE d[x]]

\* a plausible slip: the first registration wins (dict.setdefault)
register_keepfirst(item_type, object_type) ==
    /\ Len(regLog) < MaxRegs
    /\ ITEM_OBJECT' = IF item_type \in DOMAIN ITEM_OBJECT
                        THEN ITEM_OBJECT
                        ELSE DictSet(ITEM_OBJECT, item_type, object_type)
    /\ regLog' = Append(regLog, <<item_type, object_type>>)
    /\ UNCHANGED <<built, objItem, objArtist, artistRead>>
    /\ UNCHANGED <<shapeVars, colorVars, bboxVars>>

\* BaseObject.register(item_type, object_type)
register(item_type, object_type) ==
    /\ Len(regLog) < MaxRegs
    /\ ITEM_OBJECT' = DictSet(ITEM_OBJECT, item_type, object_type)
    /\ regLog' = Append(regLog, <<item_type, object_type>>)
    /\ UNCHANGED <<built, objItem, objArtist, artistRead>>
    /\ UNCHANGED <<shapeVars, colorVars, bboxVars>>

\* BaseObject.registered_object_types(): one entry per key of the dict
registered_object_types == [t \in DOMAIN ITEM_OBJECT |-> ITEM_OBJECT[t]]

\* a plausible slip: an item whose exact type is not registered is given the
\* object type registered for its base class Shape
build_base(item, kwargs) ==
    /\ UNCHANGED <<ITEM_OBJECT, regLog, objItem, objArtist, artistRead>>
    /\ IF TypeOf(item) \in DOMAIN ITEM_OBJECT
         THEN built' = [outcome |-> "ok", cls |-> ITEM_OBJECT[TypeOf(item)],
                        item |-> item, kwargs |-> kwargs, at |-> Len(regLog),
                        before |-> ITEM_OBJECT, after |-> ITEM_OBJECT']
         ELSE IF "Shape" \in DOMAIN ITEM_OBJECT
           THEN built' = [outcome |-> "ok", cls |-> ITEM_OBJECT["Shape"],
                          item |-> item, kwargs |-> kwargs, at |-> Len(regLog),
                          before |-> ITEM_OBJECT, after |-> ITEM_OBJECT']
           ELSE built' = [outcome |-> "KeyError", item |-> item, kwargs |-> kwargs,
                          at |-> Len(regLog),
                          before |-> ITEM_OBJECT, after |-> ITEM_OBJECT']
    /\ UNCHANGED <<shapeVars, colorVars, bboxVars>>

\* BaseObject.build(item, **kwargs): a KeyError when type(item) is no key
\* (history: at, the number of register() calls made before this build; before
\* and after, the dict as the call found it and left it)
build(item, kwargs) ==
    /\ UNCHANGED <<ITEM_OBJECT, regLog, objItem, objArtist, artistRead>>
    /\ IF TypeOf(item) \in DOMAIN ITEM_OBJECT
         THEN built' = [outcome |-> "ok", cls |-> ITEM_OBJECT[TypeOf(item)],
                        item |-> item, kwargs |-> kwargs, at |-> Len(regLog),
                        before |-> ITEM_OBJECT, after |-> ITEM_OBJECT']
         ELSE built' = [outcome |-> "KeyError", item |-> item, kwargs |-> kwargs,
                        at |-> Len(regLog),
                        before |-> ITEM_OBJECT, after |-> ITEM_OBJECT']
    /\ UNCHANGED <<shapeVars, colorVars, bboxVars>>

\* BaseArtist.build(item): the artist for the type of the item, holding the item
BaseArtist_build(item) == [cls |-> TypeOf(item), item |-> item]

\* the item setter of BaseObject
set_item(item) ==
    /\ objItem' = item
    /\ UNCHANGED <<ITEM_OBJECT, regLog, built, objArtist, artistRead>>
    /\ UNCHANGED <<shapeVars, colorVars, bboxVars>>

\* the artist property of BaseObject: built on the first read, then kept
get_artist ==
    /\ objArtist' = IF objArtist = NoArtist THEN BaseArtist_build(objItem) ELSE objArtist
    /\ artistRead' = [artist |-> objArtist', of |-> objItem]
    /\ UNCHANGED <<ITEM_OBJECT, regLog, built, objItem>>
    /\ UNCHANGED <<shapeVars, colorVars, bboxVars>>

\* BaseObject.__init__(item): _artist is None and the item is set
SceneInit ==
    /\ ITEM_OBJECT = <<>>
    /\ regLog = <<>>
    /\ built = [outcome |-> None]
    /\ objItem \in Items
    /\ objArtist = NoArtist
    /\ artistRead = [artist |-> NoArtist, of |-> None]

Register == \E t \in ItemTypes, o \in ObjectTypes : register(t, o)
Build == \E i \in Items, k \in Kwargs : build(i, k)
SetItem == \E i \in Items : set_item(i)
GetArtist == get_artist

InitScene == SceneInit /\ ShapeIdle /\ ColorIdle /\ BBoxIdle
NextScene == Register \/ Build \/ SetItem \/ GetArtist
SpecScene == InitScene /\ [][NextScene]_vars

(***************************************************************************)
(*                compas_rhino.objects._shapeobject                        *)
(***************************************************************************)
MaxStack == 2
MaxDraws == 2
Dim == 4

\* A COMPAS Transformation is a list of Dim rows; a Rhino Transform is kept
\* here by its Dim*Dim entries in row-major order, read as T[i, j].
Idx(i, j) == Dim * i + j + 1
XGet(T, i, j) == T[Idx(i, j)]

Translation == << <<1, 0, 0, 1>>, <<0, 1, 0, 0>>, <<0, 0, 1, 0>>, <<0, 0, 0, 1>> >>
Rotation    == << <<0, -1, 0, 0>>, <<1, 0, 0, 0>>, <<0, 0, 1, 0>>, <<0, 0, 0, 1>> >>
Transformations == {Translation, Rotation}

\* the vertices of the shape at construction
Shape0 == << <<0, 0, 0>>, <<1, 0, 0>>, <<0, 1, 0>>, <<0, 0, 1>> >>

\* xform_from_transformation: the Rhino Transform with the entries of a Transformation
xform_from_transformation(t) ==
    [n \in 1..(Dim * Dim) |-> t[((n - 1) \div Dim) + 1][((n - 1) % Dim) + 1]]

\* Transform.Multiply(a, b): the matrix product a * b
Multiply(a, b) ==
    [n \in 1..(Dim * Dim) |->
        LET i == (n - 1) \div Dim
            j == (n - 1) % Dim
        IN  XGet(a, i, 0) * XGet(b, 0, j) + XGet(a, i, 1) * XGet(b, 1, j)
          + XGet(a, i, 2) * XGet(b, 2, j) + XGet(a, i, 3) * XGet(b, 3, j)]

\* reduce(Transform.Multiply, stack) on a non-empty stack: ((s1 * s2) * s3) ...
RECURSIVE Reduce(_)
Reduce(items) ==
    IF Len(items) = 1 THEN items[1]
    ELSE Multiply(Reduce(SubSeq(items, 1, Len(items) - 1)), items[Len(items)])

\* synchronize's copy loop: M[i, j] = T[i, j] for i, j in range(4)
CopyToTransformation(T) ==
    [i \in 1..Dim |-> [j \in 1..Dim |-> XGet(T, i - 1, j - 1)]]

\* shape.transform(M): every vertex mapped by the (affine) Transformation M
ShapeTransform(verts, M) ==
    [v \in DOMAIN verts |->
        [c \in 1..3 |-> M[c][1] * verts[v][1] + M[c][2] * verts[v][2]
                      + M[c][3] * verts[v][3] + M[c][4]]]

\* obj.Geometry.Transform(xform): every vertex of the host geometry mapped by xform
GeometryTransform(verts, X) ==
    [v \in DOMAIN verts |->
        [c \in 1..3 |-> XGet(X, c - 1, 0) * verts[v][1] + XGet(X, c - 1, 1) * verts[v][2]
                      + XGet(X, c - 1, 2) * verts[v][3] + XGet(X, c - 1, 3)]]

\* compas_rhino.delete_object(guid, purge=True)
delete_object(d, g) == [x \in (DOMAIN d) \ {g} |-> d[x]]

\* history: the state a call starts from
Snapshot == [shape |-> shape, stack |-> stack, guid |-> guid, doc |-> doc,
             visible |-> visible, nextGuid |-> nextGuid, matrix |-> matrix]

\* history: the update() calls made, with a matrix set, since the object was
\* drawn with an empty pending stack and not redrawn or cleared since
RunStart == guid # NoGuid /\ stack.items = <<>>
RunOnUpdate(run) ==
    IF matrix = <<>> THEN run
    ELSE IF RunStart
      THEN [open |-> TRUE, ms |-> <<matrix>>, shape0 |-> shape, host0 |-> doc[guid]]
    ELSE IF run.open THEN [run EXCEPT !.ms = Append(run.ms, matrix)]
    ELSE run
NoRun == [open |-> FALSE, ms |-> <<>>, shape0 |-> <<>>, host0 |-> <<>>]

\* history: the call made and how it ended; log: every matrix update() has put
\* on the stack since construction, oldest first
Logged(op, outcome, run, log) ==
    /\ prev' = Snapshot
    /\ last' = [op |-> op, outcome |-> outcome,
                clean |-> last.clean /\ outcome = "ok", run |-> run, log |-> log]

Called(op, outcome, run) == Logged(op, outcome, run, last.log)

\* the state ShapeObject.clear leaves: (guid, doc)
Cleared == IF guid # NoGuid THEN <<NoGuid, delete_object(doc, guid)>> ELSE <<guid, doc>>

\* ShapeObject.clear
clear ==
    /\ guid' = Cleared[1]
    /\ doc' = Cleared[2]
    /\ Called("clear", "ok", NoRun)
    /\ UNCHANGED <<visible, matrix, stack, shape, nextGuid>>
    /\ UNCHANGED <<sceneVars, colorVars, bboxVars>>

\* a plausible slip: draw without clearing first
draw_noclear ==
    /\ visible => nextGuid <= MaxDraws
    /\ IF ~visible
         THEN UNCHANGED <<guid, doc, nextGuid>>
         ELSE /\ guid' = nextGuid
              /\ doc' = DictSet(doc, nextGuid, shape)
              /\ nextGuid' = nextGuid + 1
    /\ Called("draw", "ok", NoRun)
    /\ UNCHANGED <<visible, matrix, stack, shape>>
    /\ UNCHANGED <<sceneVars, colorVars, bboxVars>>

\* a plausible slip: draw that does not look at visible
draw_always ==
    /\ nextGuid <= MaxDraws
    /\ guid' = nextGuid
    /\ doc' = DictSet(Cleared[2], nextGuid, shape)
    /\ nextGuid' = nextGuid + 1
    /\ Called("draw", "ok", NoRun)
    /\ UNCHANGED <<visible, matrix, stack, shape>>
    /\ UNCHANGED <<sceneVars, colorVars, bboxVars>>

\* ShapeObject.draw: clear(), then, when visible, the artist draws the shape as a
\* new host object (a mesh of the shape's vertices) and its guid is kept
draw ==
    /\ visible => nextGuid <= MaxDraws
    /\ IF ~visible
         THEN /\ guid' = Cleared[1]
              /\ doc' = Cleared[2]
              /\ UNCHANGED nextGuid
         ELSE /\ guid' = nextGuid
              /\ doc' = DictSet(Cleared[2], nextGuid, shape)
              /\ nextGuid' = nextGuid + 1
    /\ Called("draw", "ok", NoRun)
    /\ UNCHANGED <<visible, matrix, stack, shape>>
    /\ UNCHANGED <<sceneVars, colorVars, bboxVars>>

\* the matrix setter
set_matrix(t) ==
    /\ matrix' = xform_from_transformation(t)
    /\ Called("matrix", "ok", last.run)
    /\ UNCHANGED <<visible, guid, stack, shape, doc, nextGuid>>
    /\ UNCHANGED <<sceneVars, colorVars, bboxVars>>

\* assignment to the visible attribute
set_visible(b) ==
    /\ visible' = b
    /\ Called("visible", "ok", last.run)
    /\ UNCHANGED <<guid, matrix, stack, shape, doc, nextGuid>>
    /\ UNCHANGED <<sceneVars, colorVars, bboxVars>>

\* a plausible slip: update that only records the matrix and leaves the host
\* object alone
update_lazy ==
    /\ (matrix # <<>> /\ stack.kind = "deque") => Len(stack.items) < MaxStack
    /\ IF matrix = <<>>
         THEN UNCHANGED stack /\ Called("update", "ok", RunOnUpdate(last.run))
         ELSE IF stack.kind # "deque"
           THEN UNCHANGED stack /\ Called("update", "AttributeError", RunOnUpdate(last.run))
           ELSE /\ stack' = [stack EXCEPT !.items = <<matrix>> \o stack.items]
                /\ Logged("update", "ok", RunOnUpdate(last.run),
                          Append(last.log, matrix))
    /\ UNCHANGED <<visible, guid, matrix, shape, doc, nextGuid>>
    /\ UNCHANGED <<sceneVars, colorVars, bboxVars>>

\* ShapeObject.update: with a matrix set, appendleft on the stack (an
\* AttributeError once the stack is a list), then Find the host object (an error
\* when there is none) and transform its geometry
update ==
    /\ (matrix # <<>> /\ stack.kind = "deque") => Len(stack.items) < MaxStack
    /\ IF matrix = <<>>
         THEN /\ UNCHANGED <<stack, doc>>
              /\ Called("update", "ok", RunOnUpdate(last.run))
         ELSE IF stack.kind # "deque"
           THEN /\ UNCHANGED <<stack, doc>>
                /\ Called("update", "AttributeError", RunOnUpdate(last.run))
           ELSE /\ stack' = [stack EXCEPT !.items = <<matrix>> \o stack.items]
                /\ IF guid \in DOMAIN doc
                     THEN /\ doc' = [doc EXCEPT ![guid] = GeometryTransform(doc[guid], matrix)]
                          /\ Logged("update", "ok", RunOnUpdate(last.run),
                                    Append(last.log, matrix))
                     ELSE /\ UNCHANGED doc
                          /\ Logged("update", "NoHostObject", RunOnUpdate(last.run),
                                    Append(last.log, matrix))
    /\ UNCHANGED <<visible, guid, matrix, shape, nextGuid>>
    /\ UNCHANGED <<sceneVars, colorVars, bboxVars>>

\* a plausible slip: the stack not emptied once it has been applied
synchronize_keep ==
    /\ IF stack.items = <<>>
         THEN /\ UNCHANGED <<shape, stack>>
              /\ Called("synchronize", "TypeError", last.run)
         ELSE /\ shape' = ShapeTransform(shape, CopyToTransformation(Reduce(stack.items)))
              /\ UNCHANGED stack
              /\ Called("synchronize", "ok", last.run)
    /\ UNCHANGED <<visible, guid, matrix, doc, nextGuid>>
    /\ UNCHANGED <<sceneVars, colorVars, bboxVars>>

\* ShapeObject.synchronize: reduce raises a TypeError on an empty stack;
\* otherwise the shape is transformed by the product and the stack becomes []
synchronize ==
    /\ IF stack.items = <<>>
         THEN /\ UNCHANGED <<shape, stack>>
              /\ Called("synchronize", "TypeError", last.run)
         ELSE /\ shape' = ShapeTransform(shape, CopyToTransformation(Reduce(stack.items)))
              /\ stack' = [kind |-> "list", items |-> <<>>]
              /\ Called("synchronize", "ok", last.run)
    /\ UNCHANGED <<visible, guid, matrix, doc, nextGuid>>
    /\ UNCHANGED <<sceneVars, colorVars, bboxVars>>

\* ShapeObject.__init__(shape, visible=...)
ShapeInit ==
    /\ visible \in BOOLEAN
    /\ guid = NoGuid
    /\ matrix = <<>>
    /\ stack = [kind |-> "deque", items |-> <<>>]
    /\ shape = Shape0
    /\ doc = <<>>
    /\ nextGuid = 1
    /\ prev = [shape |-> Shape0, stack |-> [kind |-> "deque", items |-> <<>>],
               guid |-> NoGuid, doc |-> <<>>, visible |-> visible, nextGuid |-> 1,
               matrix |-> <<>>]
    /\ last = [op |-> "init", outcome |-> "ok", clean |-> TRUE, run |-> NoRun,
               log |-> <<>>]

Clear == clear
Draw == draw
SetMatrix == \E t \in Transformations : set_matrix(t)
SetVisible == \E b \in BOOLEAN : set_visible(b)
Update == update
Synchronize == synchronize

InitShape == ShapeInit /\ SceneIdle /\ ColorIdle /\ BBoxIdle
NextShape == Clear \/ Draw \/ SetMatrix \/ SetVisible \/ Update \/ Synchronize
SpecShape == InitShape /\ [][NextShape]_vars


(***************************************************************************)
(*                       compas.colors.color                               *)
(***************************************************************************)
MaxColorCalls == 2

\* Component values are exact fractions <<n, d>>, d > 0, in lowest terms.
RECURSIVE Gcd(_, _)
Gcd(a, b) == IF b = 0 THEN a ELSE Gcd(b, a % b)
Abs(n) == IF n < 0 THEN -n ELSE n
Q(n, d) ==
    LET g == Gcd(Abs(n), Abs(d))
        sg == IF d < 0 THEN -1 ELSE 1
    IN  <<(sg * n) \div g, (sg * d) \div g>>
QAdd(x, y) == Q(x[1] * y[2] + y[1] * x[2], x[2] * y[2])
QSub(x, y) == Q(x[1] * y[2] - y[1] * x[2], x[2] * y[2])
QMul(x, y) == Q(x[1] * y[1], x[2] * y[2])
QDiv(x, y) == Q(x[1] * y[2], x[2] * y[1])
QLt(x, y) == x[1] * y[2] < y[1] * x[2]
QLe(x, y) == x[1] * y[2] <= y[1] * x[2]
QMin(x, y) == IF QLe(x, y) THEN x ELSE y
QMax(x, y) == IF QLe(x, y) THEN y ELSE x
\* x % 1.0
QMod1(x) == <<x[1] % x[2], x[2]>>
Zero == <<0, 1>>
One == <<1, 1>>
Two == <<2, 1>>
Half == <<1, 2>>

\* colorsys.rgb_to_hls, as Color.hls calls it
rgb_to_hls(r, g, b) ==
    LET maxc == QMax(r, QMax(g, b))
        minc == QMin(r, QMin(g, b))
        sumc == QAdd(maxc, minc)
        rangec == QSub(maxc, minc)
        l == QDiv(sumc, Two)
    IN  IF minc = maxc THEN <<Zero, l, Zero>>
        ELSE
          LET s == IF QLe(l, Half) THEN QDiv(rangec, sumc)
                   ELSE QDiv(rangec, QSub(QSub(Two, maxc), minc))
              rc == QDiv(QSub(maxc, r), rangec)
              gc == QDiv(QSub(maxc, g), rangec)
              bc == QDiv(QSub(maxc, b), rangec)
              h == IF r = maxc THEN QSub(bc, gc)
                   ELSE IF g = maxc THEN QSub(QAdd(Two, rc), bc)
                   ELSE QSub(QAdd(<<4, 1>>, gc), rc)
          IN  <<QMod1(QDiv(h, <<6, 1>>)), l, s>>

\* colorsys._v
HlsV(m1, m2, hue0) ==
    LET hue == QMod1(hue0)
    IN  IF QLt(hue, <<1, 6>>)
          THEN QAdd(m1, QMul(QMul(QSub(m2, m1), hue), <<6, 1>>))
        ELSE IF QLt(hue, Half) THEN m2
        ELSE IF QLt(hue, <<2, 3>>)
          THEN QAdd(m1, QMul(QMul(QSub(m2, m1), QSub(<<2, 3>>, hue)), <<6, 1>>))
        ELSE m1

\* colorsys.hls_to_rgb, as lighten, darken and desaturate call it
hls_to_rgb(h, l, s) ==
    IF s = Zero THEN <<l, l, l>>
    ELSE
      LET m2 == IF QLe(l, Half) THEN QMul(l, QAdd(One, s))
                ELSE QSub(QAdd(l, s), QMul(l, s))
          m1 == QSub(QMul(Two, l), m2)
      IN  <<HlsV(m1, m2, QAdd(h, <<1, 3>>)), HlsV(m1, m2, h), HlsV(m1, m2, QSub(h, <<1, 3>>))>>

\* Color.__init__
Color(red, green, blue, alpha) == [r |-> red, g |-> green, b |-> blue, a |-> alpha]

\* the data property and from_data
data(c) == [red |-> c.r, green |-> c.g, blue |-> c.b, alpha |-> c.a]
from_data(d) == Color(d.red, d.green, d.blue, d.alpha)

\* Data.copy: a new object made from the data of this one
copy(c) == from_data(data(c))

\* Color.hls
hls(c) == rgb_to_hls(c.r, c.g, c.b)

\* the rgb property, and __iter__, which iterates over it
rgb(c) == <<c.r, c.g, c.b>>
iter(c) == rgb(c)

\* __eq__: all(a == b for a, b in zip(self, other)), zip pairing what the two
\* iterators yield
eq(self, other) ==
    \A k \in DOMAIN iter(self) \cap DOMAIN iter(other) : iter(self)[k] = iter(other)[k]

\* the colors a run starts from: the presets red, lime and navy, and a
\* half-transparent brown
StartColors == {Color(One, Zero, Zero, One), Color(Half, One, Zero, One),
                Color(Zero, Zero, Half, One), Color(Half, <<1, 4>>, Zero, Half)}
\* percentages passed as factor
Factors == {-10, 0, 50, 100, 110}
\* the alpha values colors are constructed with: the default and a half
Alphas == {One, Half}

WithRgb(c, t) == [c EXCEPT !.r = t[1], !.g = t[2], !.b = t[3]]

\* Color.lighten: [outcome, color]
lighten(c, factor) ==
    IF factor > 100 \/ factor < 0 THEN [outcome |-> "ValueError", color |-> c]
    ELSE LET f == QAdd(One, Q(factor, 100))
             x == hls(c)
         IN  [outcome |-> "ok",
              color |-> WithRgb(c, hls_to_rgb(x[1], QMin(One, QMul(x[2], f)), x[3]))]

\* Color.darken
darken(c, factor) ==
    IF factor > 100 \/ factor < 0 THEN [outcome |-> "ValueError", color |-> c]
    ELSE LET f == QSub(One, Q(factor, 100))
             x == hls(c)
         IN  [outcome |-> "ok",
              color |-> WithRgb(c, hls_to_rgb(x[1], QMax(Zero, QMul(x[2], f)), x[3]))]

\* a plausible slip: the upper limit of the range excluded
desaturate_strict(c, factor) ==
    IF factor >= 100 \/ factor < 0 THEN [outcome |-> "ValueError", color |-> c]
    ELSE LET f == QSub(One, Q(factor, 100))
             x == hls(c)
         IN  [outcome |-> "ok",
              color |-> WithRgb(c, hls_to_rgb(x[1], x[2], QMax(Zero, QMul(x[3], f))))]

\* Color.desaturate
desaturate(c, factor) ==
    IF factor > 100 \/ factor < 0 THEN [outcome |-> "ValueError", color |-> c]
    ELSE LET f == QSub(One, Q(factor, 100))
             x == hls(c)
         IN  [outcome |-> "ok",
              color |-> WithRgb(c, hls_to_rgb(x[1], x[2], QMax(Zero, QMul(x[3], f))))]

\* Color.invert
invert(c) ==
    [outcome |-> "ok",
     color |-> WithRgb(c, <<QSub(One, c.r), QSub(One, c.g), QSub(One, c.b)>>)]

\* a method called on the Color object self, changing it in place
InPlace(op, self, factor, res) ==
    /\ colorLast.n < MaxColorCalls
    /\ colors' = [colors EXCEPT ![self] = res.color]
    /\ colorLast' = [op |-> op, self |-> self, factor |-> factor,
                     outcome |-> res.outcome, before |-> colors, result |-> 0,
                     n |-> colorLast.n + 1]
    /\ UNCHANGED <<sceneVars, shapeVars, bboxVars>>

\* a method that changes a copy of self and returns it; when the change raises,
\* nothing is returned and the copy is dropped
Copying(op, self, factor, res) ==
    /\ colorLast.n < MaxColorCalls
    /\ colors' = IF res.outcome = "ok" THEN Append(colors, res.color) ELSE colors
    /\ colorLast' = [op |-> op, self |-> self, factor |-> factor,
                     outcome |-> res.outcome, before |-> colors,
                     result |-> IF res.outcome = "ok" THEN Len(colors) + 1 ELSE 0,
                     n |-> colorLast.n + 1]
    /\ UNCHANGED <<sceneVars, shapeVars, bboxVars>>

\* a plausible slip: color = self in place of color = self.copy()
lightened_alias(self, factor) ==
    /\ colorLast.n < MaxColorCalls
    /\ colors' = [colors EXCEPT ![self] = lighten(colors[self], factor).color]
    /\ colorLast' = [op |-> "lightened", self |-> self, factor |-> factor,
                     outcome |-> lighten(colors[self], factor).outcome,
                     before |-> colors,
                     result |-> IF lighten(colors[self], factor).outcome = "ok"
                                  THEN self ELSE 0,
                     n |-> colorLast.n + 1]
    /\ UNCHANGED <<sceneVars, shapeVars, bboxVars>>

\* Color.lightened, darkened, inverted, desaturated
lightened(self, factor) ==
    Copying("lightened", self, factor, lighten(copy(colors[self]), factor))
darkened(self, factor) ==
    Copying("darkened", self, factor, darken(copy(colors[self]), factor))
inverted(self) ==
    Copying("inverted", self, 0, invert(copy(colors[self])))
desaturated(self, factor) ==
    Copying("desaturated", self, factor, desaturate(copy(colors[self]), factor))

Lighten == \E i \in DOMAIN colors, f \in Factors :
              InPlace("lighten", i, f, lighten(colors[i], f))
Darken == \E i \in DOMAIN colors, f \in Factors :
              InPlace("darken", i, f, darken(colors[i], f))
Desaturate == \E i \in DOMAIN colors, f \in Factors :
              InPlace("desaturate", i, f, desaturate(colors[i], f))
Invert == \E i \in DOMAIN colors : InPlace("invert", i, 0, invert(colors[i]))
Lightened == \E i \in DOMAIN colors, f \in Factors : lightened(i, f)
Darkened == \E i \in DOMAIN colors, f \in Factors : darkened(i, f)
Desaturated == \E i \in DOMAIN colors, f \in Factors : desaturated(i, f)
Inverted == \E i \in DOMAIN colors : inverted(i)

\* Color(red, green, blue, alpha): one more color object
Color_init(red, green, blue, alpha) ==
    /\ colorLast.n < MaxColorCalls
    /\ colors' = Append(colors, Color(red, green, blue, alpha))
    /\ colorLast' = [op |-> "Color", self |-> Len(colors) + 1, factor |-> 0,
                     outcome |-> "ok", before |-> colors, result |-> Len(colors) + 1,
                     n |-> colorLast.n + 1]
    /\ UNCHANGED <<sceneVars, shapeVars, bboxVars>>

\* self == other between two color objects (history: other, and the value
\* returned in equal)
compare(self, other) ==
    /\ colorLast.n < MaxColorCalls
    /\ colorLast' = [op |-> "eq", self |-> self, factor |-> 0, outcome |-> "ok",
                     before |-> colors, result |-> 0, n |-> colorLast.n + 1,
                     other |-> other, equal |-> eq(colors[self], colors[other])]
    /\ UNCHANGED colors
    /\ UNCHANGED <<sceneVars, shapeVars, bboxVars>>

Construct == \E c \in StartColors, al \in Alphas : Color_init(c.r, c.g, c.b, al)
Compare == \E i \in DOMAIN colors, j \in DOMAIN colors : compare(i, j)

ColorInit ==
    /\ colors \in {<<c>> : c \in StartColors}
    /\ colorLast = [op |-> "init", self |-> 0, factor |-> 0, outcome |-> "ok",
                    before |-> colors, result |-> 0, n |-> 0]

InitColor == ColorInit /\ SceneIdle /\ ShapeIdle /\ BBoxIdle
NextColor == Lighten \/ Darken \/ Desaturate \/ Invert
                \/ Lightened \/ Darkened \/ Desaturated \/ Inverted
                \/ Construct \/ Compare
SpecColor == InitColor /\ [][NextColor]_vars

FactorOps == {"lighten", "darken", "desaturate", "lightened", "darkened", "desaturated"}
CopyOps == {"lightened", "darkened", "inverted", "desaturated"}
InPlaceOps == {"lighten", "darken", "desaturate", "invert"}

\* C8: lighten, darken, desaturate and their copying variants raise ValueError
\* exactly when factor is below 0 or above 100, and a call that raises leaves
\* every component of the color (of every color) as it was.
C8_FactorRange ==
    colorLast.op \in FactorOps =>
        /\ colorLast.outcome = "ValueError"
              <=> (colorLast.factor < 0 \/ colorLast.factor > 100)
        /\ colorLast.outcome = "ValueError" => colors = colorLast.before

\* a copying call that raised on a color changed by an earlier call
C8_Witness ==
    /\ colorLast.op = "darkened" /\ colorLast.factor > 100
    /\ colorLast.outcome = "ValueError" /\ colors = colorLast.before
    /\ colors[1] \notin StartColors

\* C10: lightened, darkened, inverted and desaturated return a new Color and
\* leave the receiver (and every other color) as it was; a later change of a
\* color in place changes no other color, so not the one it was copied from.
C10_CopiesLeaveReceiver ==
    /\ colorLast.op \in CopyOps =>
          /\ colors[colorLast.self] = colorLast.before[colorLast.self]
          /\ \A i \in DOMAIN colorLast.before : colors[i] = colorLast.before[i]
          /\ colorLast.outcome = "ok" =>
                /\ colorLast.result \notin DOMAIN colorLast.before
                /\ colorLast.result \in DOMAIN colors
    /\ colorLast.op \in InPlaceOps =>
          \A i \in DOMAIN colors : i # colorLast.self => colors[i] = colorLast.before[i]

\* a returned copy changed in place afterwards, the receiver still as it was
C10_Witness ==
    /\ colorLast.op \in InPlaceOps /\ colorLast.self = 2
    /\ colors[2] # colorLast.before[2]
    /\ colors[1] = colorLast.before[1] /\ colors[1] \in StartColors

\* C16: two colors compare equal exactly when their red, green, blue and alpha
\* components are all equal; the comparison is reflexive and symmetric.
C16_EqualityIsValueEquality ==
    colorLast.op = "eq" =>
        /\ colorLast.equal <=> (colors[colorLast.self] = colors[colorLast.other])
        /\ colorLast.self = colorLast.other => colorLast.equal
        /\ colorLast.equal = eq(colors[colorLast.other], colors[colorLast.self])

(***************************************************************************)
(*                     compas.geometry.bbox.bbox                           *)
(***************************************************************************)
MaxPoints == 2
MaxCoord == 1

Coords == (-1)..MaxCoord
XYZ == Coords \X Coords \X Coords

\* zip(*points)[c]: the c-th coordinate of every point
Column(pts, c) == [i \in DOMAIN pts |-> pts[i][c]]

\* the builtins min and max on a non-empty sequence
RECURSIVE SeqMin(_)
SeqMin(q) ==
    IF Len(q) = 1 THEN q[1]
    ELSE LET m == SeqMin(Tail(q)) IN IF q[1] <= m THEN q[1] ELSE m
RECURSIVE SeqMax(_)
SeqMax(q) ==
    IF Len(q) = 1 THEN q[1]
    ELSE LET m == SeqMax(Tail(q)) IN IF q[1] >= m THEN q[1] ELSE m

\* a plausible slip: the last two corners of each face exchanged
bounding_box_swapped(pts) ==
    LET min_x == SeqMin(Column(pts, 1))
        max_x == SeqMax(Column(pts, 1))
        min_y == SeqMin(Column(pts, 2))
        max_y == SeqMax(Column(pts, 2))
        min_z == SeqMin(Column(pts, 3))
        max_z == SeqMax(Column(pts, 3))
    IN  << <<min_x, min_y, min_z>>, <<max_x, min_y, min_z>>,
           <<min_x, max_y, min_z>>, <<max_x, max_y, min_z>>,
           <<min_x, min_y, max_z>>, <<max_x, min_y, max_z>>,
           <<min_x, max_y, max_z>>, <<max_x, max_y, max_z>> >>

\* bounding_box(points), for a non-empty sequence of XYZ points
bounding_box(pts) ==
    LET min_x == SeqMin(Column(pts, 1))
        max_x == SeqMax(Column(pts, 1))
        min_y == SeqMin(Column(pts, 2))
        max_y == SeqMax(Column(pts, 2))
        min_z == SeqMin(Column(pts, 3))
        max_z == SeqMax(Column(pts, 3))
    IN  << <<min_x, min_y, min_z>>, <<max_x, min_y, min_z>>,
           <<max_x, max_y, min_z>>, <<min_x, max_y, min_z>>,
           <<min_x, min_y, max_z>>, <<max_x, min_y, max_z>>,
           <<max_x, max_y, max_z>>, <<min_x, max_y, max_z>> >>

\* a call of bounding_box on the points at hand; unpacking zip(*points) of an
\* empty sequence raises a ValueError
CallBoundingBox ==
    /\ bboxLast.op = "init"
    /\ IF points = <<>>
         THEN /\ box' = <<>>
              /\ bboxLast' = [op |-> "bounding_box", outcome |-> "ValueError"]
         ELSE /\ box' = bounding_box(points)
              /\ bboxLast' = [op |-> "bounding_box", outcome |-> "ok"]
    /\ UNCHANGED points
    /\ UNCHANGED <<sceneVars, shapeVars, colorVars>>

BBoxInit ==
    /\ points \in UNION {[1..n -> XYZ] : n \in 0..MaxPoints}
    /\ box = <<>>
    /\ bboxLast = [op |-> "init", outcome |-> "ok"]

InitBBox == BBoxInit /\ SceneIdle /\ ShapeIdle /\ ColorIdle
NextBBox == CallBoundingBox
SpecBBox == InitBBox /\ [][NextBBox]_vars

\* C9: for a non-empty sequence of XYZ points bounding_box returns 8 corners;
\* corner 0 is below and corner 6 above every input point on each axis, each of
\* their coordinates is the coordinate of some input point, and the corners are
\* the bottom face (z = min) then the top face (z = max), each in the order
\* (min,min), (max,min), (max,max), (min,max) in x, y.
C9_BoundingBox ==
    (bboxLast.op = "bounding_box" /\ points # <<>>) =>
        /\ bboxLast.outcome = "ok"
        /\ Len(box) = 8
        /\ LET lo == box[1]
               hi == box[7]
           IN  /\ \A c \in 1..3 :
                     /\ \A i \in DOMAIN points : lo[c] <= points[i][c] /\ points[i][c] <= hi[c]
                     /\ \E i \in DOMAIN points : points[i][c] = lo[c]
                     /\ \E i \in DOMAIN points : points[i][c] = hi[c]
               /\ box = << <<lo[1], lo[2], lo[3]>>, <<hi[1], lo[2], lo[3]>>,
                           <<hi[1], hi[2], lo[3]>>, <<lo[1], hi[2], lo[3]>>,
                           <<lo[1], lo[2], hi[3]>>, <<hi[1], lo[2], hi[3]>>,
                           <<hi[1], hi[2], hi[3]>>, <<lo[1], hi[2], hi[3]>> >>

\* a box of two points neither of which is one of its extreme corners
C9_Witness ==
    /\ bboxLast.op = "bounding_box" /\ bboxLast.outcome = "ok"
    /\ Len(points) = 2
    /\ \A i \in DOMAIN points : points[i] # box[1] /\ points[i] # box[7]
    /\ \A c \in 1..3 : box[1][c] < box[7][c]

\* Points given to bounding_box_xy: XY, or XYZ with any Z
ZCoords == 0..1
XY == Coords \X Coords
XYorXYZ == XY \cup (Coords \X Coords \X ZCoords)

\* a plausible slip: the second and third columns taken (islice(..., 1, 3));
\* with a point that has no Z the unpacking fails and nothing is returned
bounding_box_xy_shifted(pts) ==
    IF \E i \in DOMAIN pts : Len(pts[i]) < 3 THEN <<>>
    ELSE
      LET min_x == SeqMin(Column(pts, 2))
          max_x == SeqMax(Column(pts, 2))
          min_y == SeqMin(Column(pts, 3))
          max_y == SeqMax(Column(pts, 3))
      IN  << <<min_x, min_y, 0>>, <<max_x, min_y, 0>>,
             <<max_x, max_y, 0>>, <<min_x, max_y, 0>> >>

\* bounding_box_xy(points), for a non-empty sequence: the first two columns of
\* zip(*points), whatever follows them
bounding_box_xy(pts) ==
    LET min_x == SeqMin(Column(pts, 1))
        max_x == SeqMax(Column(pts, 1))
        min_y == SeqMin(Column(pts, 2))
        max_y == SeqMax(Column(pts, 2))
    IN  << <<min_x, min_y, 0>>, <<max_x, min_y, 0>>,
           <<max_x, max_y, 0>>, <<min_x, max_y, 0>> >>

\* a call of bounding_box_xy on the points at hand; unpacking the columns of an
\* empty sequence raises a ValueError
CallBoundingBoxXY ==
    /\ bboxLast.op = "init"
    /\ IF points = <<>>
         THEN /\ box' = <<>>
              /\ bboxLast' = [op |-> "bounding_box_xy", outcome |-> "ValueError"]
         ELSE /\ box' = bounding_box_xy(points)
              /\ bboxLast' = [op |-> "bounding_box_xy", outcome |-> "ok"]
    /\ UNCHANGED points
    /\ UNCHANGED <<sceneVars, shapeVars, colorVars>>

BBoxXYInit ==
    /\ points \in UNION {[1..n -> XYorXYZ] : n \in 0..MaxPoints}
    /\ box = <<>>
    /\ bboxLast = [op |-> "init", outcome |-> "ok"]

InitBBoxXY == BBoxXYInit /\ SceneIdle /\ ShapeIdle /\ ColorIdle
NextBBoxXY == CallBoundingBoxXY
SpecBBoxXY == InitBBoxXY /\ [][NextBBoxXY]_vars

\* the inputs that differ from pts at most in the Z components of their points,
\* or in having none
SameXY(pts) ==
    {q \in [DOMAIN pts -> XYorXYZ] :
        \A i \in DOMAIN pts : q[i][1] = pts[i][1] /\ q[i][2] = pts[i][2]}

\* C11: for a non-empty sequence of points bounding_box_xy returns the 4 corners
\* (min_x,min_y), (max_x,min_y), (max_x,max_y), (min_x,max_y) with z = 0, the
\* minima and maxima being those of the X and Y components of the input, and
\* every input that differs only in Z components, or has none, gives the same
\* result.
C11_BoundingBoxXY ==
    (bboxLast.op = "bounding_box_xy" /\ points # <<>>) =>
        /\ bboxLast.outcome = "ok"
        /\ Len(box) = 4
        /\ LET lo == box[1]
               hi == box[3]
           IN  /\ \A c \in 1..2 :
                     /\ \A i \in DOMAIN points : lo[c] <= points[i][c] /\ points[i][c] <= hi[c]
                     /\ \E i \in DOMAIN points : points[i][c] = lo[c]
                     /\ \E i \in DOMAIN points : points[i][c] = hi[c]
               /\ box = << <<lo[1], lo[2], 0>>, <<hi[1], lo[2], 0>>,
                           <<hi[1], hi[2], 0>>, <<lo[1], hi[2], 0>> >>
        /\ \A q \in SameXY(points) : bounding_box_xy(q) = box

\* a rectangle of two points, one with a Z component other than 0 and one
\* with none, neither of them a corner 0 or 2 of it
C11_Witness ==
    /\ bboxLast.op = "bounding_box_xy" /\ bboxLast.outcome = "ok"
    /\ Len(points) = 2
    /\ Len(points[1]) = 3 /\ points[1][3] # 0 /\ Len(points[2]) = 2
    /\ \A c \in 1..2 : box[1][c] < box[3][c]
    /\ \A i \in DOMAIN points : <<points[i][1], points[i][2]>> \notin
                                    {<<box[1][1], box[1][2]>>, <<box[3][1], box[3][2]>>}

\* what the vertices verts become when the transforms ms are applied one after
\* the other, ms[1] first
RECURSIVE ApplyAll(_, _)
ApplyAll(ms, verts) ==
    IF ms = <<>> THEN verts
    ELSE ApplyAll(Tail(ms), GeometryTransform(verts, ms[1]))

\* C2 (as stated in the specification): update() only records the matrix; the
\* host object's geometry is not transformed by the update() call.
C2_UpdateLeavesHostUntouched ==
    last.op = "update" => doc = prev.doc

\* C2 (amended): whenever update() records the current matrix as pending on a
\* drawn object, the host object's geometry is transformed by that matrix in
\* that same call, and update() changes the host object in no other case;
\* update() never transforms the shape.  The shape is transformed only by
\* synchronize(), by the pending batch, and synchronize() leaves the host
\* object alone.
C2_UpdateTransformsHostAtOnce ==
    /\ last.op = "update" => shape = prev.shape
    /\ (last.op = "update" /\ stack # prev.stack /\ prev.guid # NoGuid) =>
          /\ stack.items = <<prev.matrix>> \o prev.stack.items
          /\ guid \in DOMAIN doc
          /\ doc[guid] = GeometryTransform(prev.doc[guid], prev.matrix)
    /\ (last.op = "update" /\ doc # prev.doc) => stack # prev.stack
    /\ last.op = "synchronize" => doc = prev.doc
    /\ shape # prev.shape =>
          /\ last.op = "synchronize"
          /\ prev.stack.items # <<>> /\ stack.items = <<>>
          /\ shape = ShapeTransform(prev.shape,
                                    CopyToTransformation(Reduce(prev.stack.items)))

\* an update() that moved the host object while the shape is still where it was
\* at construction
C2_Witness ==
    /\ last.op = "update" /\ last.outcome = "ok" /\ prev.matrix # <<>>
    /\ doc[guid] # prev.doc[guid]
    /\ shape = Shape0 /\ stack.items # <<>>

\* C3: after a synchronize() that succeeds, at the end of a sequence of draw(),
\* clear(), matrix assignments and update() calls none of which raised, the
\* shape and the host object drawn for it are at the same location.
C3_SynchronizedWithHost ==
    (last.op = "synchronize" /\ last.outcome = "ok" /\ last.clean /\ guid # NoGuid)
        => doc[guid] = shape

\* C4: when update() has been called with matrices M1, ..., Mn on a drawn object
\* whose pending stack was empty, and synchronize() is called next, the shape is
\* what applying M1, then M2, ..., then Mn to it gives.
C4_SynchronizeAppliesComposition ==
    (last.op = "synchronize" /\ last.run.open)
        => shape = ApplyAll(last.run.ms, last.run.shape0)

\* C12: when synchronize() returns the pending stack is empty, and at any time
\* the shape is the shape at construction with exactly those recorded
\* transforms applied that are no longer pending, each once, in the order
\* update() recorded them: none is applied again by a later synchronize().
C12_AppliedExactlyOnce ==
    /\ (last.op = "synchronize" /\ last.outcome = "ok") => stack.items = <<>>
    /\ Len(stack.items) <= Len(last.log)
    /\ shape = ApplyAll(SubSeq(last.log, 1, Len(last.log) - Len(stack.items)), Shape0)

\* a synchronize() called again, on a drawn object, after one that applied two
\* transforms
C12_Witness ==
    /\ last.op = "synchronize" /\ prev.stack.items = <<>>
    /\ guid # NoGuid /\ doc[guid] = shape
    /\ Len(last.log) = 2 /\ last.log[1] # last.log[2]
    /\ shape = ApplyAll(last.log, Shape0) /\ shape # Shape0

\* C13: on a drawn ShapeObject with a matrix set and nothing pending, whether
\* freshly constructed or after a synchronize() that returned, update() succeeds
\* and records its matrix on the stack.
C13_UpdateAfterSynchronize ==
    (last.op = "update" /\ prev.matrix # <<>> /\ prev.guid # NoGuid
        /\ prev.stack.items = <<>>)
        => (last.outcome = "ok" /\ stack.items = <<prev.matrix>>)

\* C14: synchronize() with nothing pending completes without error and leaves
\* the shape as it is.
C14_SynchronizeNothingPending ==
    (last.op = "synchronize" /\ prev.stack.items = <<>>)
        => (last.outcome = "ok" /\ shape = prev.shape)

\* C5: at most one host object of the ShapeObject is in the document, it is
\* there exactly when guid is not None and guid identifies it; clear() leaves
\* none and guid None; draw() leaves no previously drawn object behind.
C5_AtMostOneHostObject ==
    /\ Cardinality(DOMAIN doc) <= 1
    /\ guid # NoGuid => DOMAIN doc = {guid}
    /\ guid = NoGuid => DOMAIN doc = {}
    /\ last.op = "clear" => (guid = NoGuid /\ DOMAIN doc = {})
    /\ (last.op = "draw" /\ prev.guid # NoGuid) => prev.guid \notin DOMAIN doc

\* a draw() that replaced an earlier host object by a new one
C5_Witness ==
    /\ last.op = "draw" /\ prev.guid # NoGuid
    /\ guid # NoGuid /\ guid # prev.guid

\* C6: draw() with visible False leaves no host object: an earlier one is
\* deleted, the artist draws nothing (no guid is handed out), guid is None.
C6_InvisibleDrawLeavesNothing ==
    (last.op = "draw" /\ ~prev.visible) =>
        /\ guid = NoGuid
        /\ DOMAIN doc = {}
        /\ nextGuid = prev.nextGuid

\* a draw() of an invisible object that had a host object drawn before
C6_Witness ==
    last.op = "draw" /\ ~prev.visible /\ prev.guid # NoGuid /\ guid = NoGuid

\* history: the object type of the last register() call for item type t, if any
RECURSIVE MostRecent(_, _)
MostRecent(log, t) ==
    IF log = <<>> THEN None
    ELSE IF log[Len(log)][1] = t THEN log[Len(log)][2]
    ELSE MostRecent(SubSeq(log, 1, Len(log) - 1), t)

\* C1: the registry holds, for every item type, exactly the object type most
\* recently registered for it (so a registration replaces the earlier one for
\* its type and touches no other type), and a build that succeeds instantiates
\* that object type with the item and the keyword arguments given.
C1_BuildUsesLatestRegistration ==
    /\ \A t \in ItemTypes :
          IF t \in DOMAIN ITEM_OBJECT
            THEN ITEM_OBJECT[t] = MostRecent(regLog, t)
            ELSE MostRecent(regLog, t) = None
    /\ built.outcome = "ok" =>
          /\ built.cls = MostRecent(SubSeq(regLog, 1, built.at), TypeOf(built.item))
          /\ built.item \in Items /\ built.kwargs \in Kwargs

\* a type registered twice with different object types, another type registered
\* too, and an item of the re-registered type built
C1_Witness ==
    /\ Len(regLog) = 3
    /\ regLog[1][1] = "Sphere" /\ regLog[3][1] = "Sphere"
    /\ regLog[1][2] # regLog[3][2]
    /\ regLog[2][1] = "Cone"
    /\ built.outcome = "ok" /\ built.item = "sphere1" /\ built.at = 3
    /\ built.cls = regLog[3][2]

\* C15: build raises (a KeyError) exactly when no object type has been
\* registered for the exact type of the item, also when one is registered for
\* its base class; it then creates no object and leaves the registry as it was;
\* registered_object_types() has one entry per item type registered.
C15_BuildExactTypeOnly ==
    /\ built.outcome \in {"ok", "KeyError"} =>
          /\ built.outcome = "KeyError"
                <=> MostRecent(SubSeq(regLog, 1, built.at), TypeOf(built.item)) = None
          /\ built.outcome = "KeyError" =>
                /\ "cls" \notin DOMAIN built
                /\ built.after = built.before
    /\ DOMAIN registered_object_types = {regLog[i][1] : i \in DOMAIN regLog}
    /\ \A t \in DOMAIN registered_object_types :
          registered_object_types[t] = MostRecent(regLog, t)

\* a build of a Sphere that failed with the base class Shape and the class
\* Cone registered
C15_Witness ==
    /\ built.outcome = "KeyError" /\ TypeOf(built.item) = "Sphere"
    /\ DOMAIN built.before = {"Shape", "Cone"}
    /\ DOMAIN ITEM_OBJECT = {"Shape", "Cone"}

\* C7: the artist read from a scene object is the artist built for the item the
\* object holds now.
C7_ArtistMatchesItem ==
    artistRead.artist # NoArtist => artistRead.artist = BaseArtist_build(artistRead.of)

====
